---- MODULE Spec2Model ----
(***************************************************************************)
(* A model of vidsorter's cli.py: the scan of the current directory for    *)
(* media files, the per-file loop of process_media_files (identifier       *)
(* extraction, owner lookup, channel directory creation, collision-free    *)
(* move), the statistics it keeps and the final summary.                   *)
(*                                                                         *)
(* Strings are sequences of one-character strings, so that the regular     *)
(* expression of extract_video_id, the substitution and strip of           *)
(* sanitize_directory_name and the f"{stem}_{counter}{suffix}" renaming of *)
(* move_file_to_channel_directory are computed character by character.     *)
(***************************************************************************)
EXTENDS Integers, Sequences, FiniteSets, TLC

(***************************************************************************)
(* Bounds of the model.                                                    *)
(***************************************************************************)
\* the largest number of entries the scan root holds before the first run
MaxFiles == 2
\* the number of consecutive invocations of process_media_files
MaxRuns == 2

(***************************************************************************)
(* Characters and strings.                                                 *)
(***************************************************************************)
LowerLetters ==
  <<"a","b","c","d","e","f","g","h","i","j","k","l","m",
    "n","o","p","q","r","s","t","u","v","w","x","y","z">>

UpperLetters ==
  <<"A","B","C","D","E","F","G","H","I","J","K","L","M",
    "N","O","P","Q","R","S","T","U","V","W","X","Y","Z">>

DigitChars == <<"0","1","2","3","4","5","6","7","8","9">>

Range(s) == {s[k] : k \in DOMAIN s}

\* str.lower() on one character
Lower(c) ==
  IF c \in Range(UpperLetters)
  THEN LowerLetters[CHOOSE k \in 1..26 : UpperLetters[k] = c]
  ELSE c

\* str.upper() on one character
Upper(c) ==
  IF c \in Range(LowerLetters)
  THEN UpperLetters[CHOOSE k \in 1..26 : LowerLetters[k] = c]
  ELSE c

LowerStr(s) == [k \in DOMAIN s |-> Lower(s[k])]

UpperStr(s) == [k \in DOMAIN s |-> Upper(s[k])]

\* s.endswith(t), case-sensitive
EndsWith(s, t) ==
  /\ Len(s) >= Len(t)
  /\ SubSeq(s, Len(s) - Len(t) + 1, Len(s)) = t

\* str(n) for n >= 0
RECURSIVE Decimal(_)
Decimal(n) ==
  IF n < 10 THEN <<DigitChars[n + 1]>>
  ELSE Decimal(n \div 10) \o <<DigitChars[(n % 10) + 1]>>

\* Python's None, and the empty string: both are falsy where the code tests them
None == <<>>

(***************************************************************************)
(* SUPPORTED_FORMATS and ALL_FORMATS.                                      *)
(***************************************************************************)
VideoFormats ==
  { <<".","m","p","4">>, <<".","m","k","v">>, <<".","a","v","i">>,
    <<".","m","o","v">>, <<".","w","m","v">>, <<".","f","l","v">>,
    <<".","w","e","b","m">>, <<".","m","4","v">>, <<".","3","g","p">>,
    <<".","o","g","v">> }

AudioFormats ==
  { <<".","m","p","3">>, <<".","m","4","a">>, <<".","w","a","v">>,
    <<".","f","l","a","c">>, <<".","o","g","g">>, <<".","a","a","c">>,
    <<".","o","p","u","s">>, <<".","w","m","a">> }

ALL_FORMATS == VideoFormats \cup AudioFormats

(***************************************************************************)
(* Path.suffix and Path.stem of a file name: the suffix starts at the last *)
(* "." unless that "." is the first or the last character.                 *)
(***************************************************************************)
LastDot(name) ==
  IF \E k \in DOMAIN name : name[k] = "."
  THEN CHOOSE k \in DOMAIN name :
         name[k] = "." /\ \A j \in DOMAIN name : name[j] = "." => j <= k
  ELSE 0

PathSuffix(name) ==
  LET i == LastDot(name)
  IN IF 1 < i /\ i < Len(name) THEN SubSeq(name, i, Len(name)) ELSE <<>>

PathStem(name) ==
  LET i == LastDot(name)
  IN IF 1 < i /\ i < Len(name) THEN SubSeq(name, 1, i - 1) ELSE name

(***************************************************************************)
(* extract_video_id: re.search of                                          *)
(*   .*\[([a-zA-Z0-9_-]{11})\]\.(ext1|ext2|...)$        with re.IGNORECASE *)
(* The match, if any, ends at the end of the name: the extension (without  *)
(* its dot, compared case-insensitively), before it ".", "]", eleven       *)
(* identifier characters and "[".                                          *)
(***************************************************************************)
IdChars ==
  Range(LowerLetters) \cup Range(UpperLetters) \cup Range(DigitChars) \cup {"_", "-"}

IdLen == 11

\* the position of the "." of a match of the pattern with extension ext, or 0
MatchDot(filename, ext) ==
  LET e == Len(ext) - 1
      p == Len(filename) - e
  IN IF /\ p - IdLen - 2 >= 1
        /\ LowerStr(SubSeq(filename, p + 1, Len(filename))) = Tail(ext)
        /\ filename[p] = "."
        /\ filename[p - 1] = "]"
        /\ \A k \in (p - IdLen - 1)..(p - 2) : filename[k] \in IdChars
        /\ filename[p - IdLen - 2] = "["
     THEN p
     ELSE 0

extract_video_id(filename) ==
  IF \E ext \in ALL_FORMATS : MatchDot(filename, ext) > 0
  THEN LET ext == CHOOSE x \in ALL_FORMATS : MatchDot(filename, x) > 0
           p == MatchDot(filename, ext)
       IN SubSeq(filename, p - IdLen - 1, p - 2)
  ELSE None

(***************************************************************************)
(* sanitize_directory_name.                                                *)
(***************************************************************************)
ForbiddenChars == {"<", ">", ":", "\"", "/", "\\", "|", "?", "*"}

StripChars == {".", " "}

Unknown_Channel ==
  <<"U","n","k","n","o","w","n","_","C","h","a","n","n","e","l">>

\* re.sub(r'[<>:"/\\|?*]', "_", name)
Substitute(name) ==
  [k \in DOMAIN name |-> IF name[k] \in ForbiddenChars THEN "_" ELSE name[k]]

\* s.strip(". ")
RECURSIVE LStrip(_)
LStrip(s) ==
  IF s # <<>> /\ Head(s) \in StripChars THEN LStrip(Tail(s)) ELSE s

RECURSIVE RStrip(_)
RStrip(s) ==
  IF s # <<>> /\ s[Len(s)] \in StripChars
  THEN RStrip(SubSeq(s, 1, Len(s) - 1))
  ELSE s

sanitize_directory_name(name) ==
  LET sanitized == RStrip(LStrip(Substitute(name)))
  IN IF sanitized # <<>> THEN sanitized ELSE Unknown_Channel

(***************************************************************************)
(* get_file_type.                                                          *)
(***************************************************************************)
get_file_type(name) ==
  LET extension == LowerStr(PathSuffix(name))
  IN IF extension \in VideoFormats THEN "video"
     ELSE IF extension \in AudioFormats THEN "audio"
     ELSE "unknown"

(***************************************************************************)
(* move_file_to_channel_directory, lines 243-251: the destination is the   *)
(* file's own name and then stem_1.ext, stem_2.ext, ... until a name that  *)
(* does not exist in the channel directory.  existing is the set of names  *)
(* in the directory.                                                       *)
(***************************************************************************)
Candidate(name, counter) ==
  PathStem(name) \o <<"_">> \o Decimal(counter) \o PathSuffix(name)

\* a faulty variant: "if destination.exists()" in place of the while loop, so
\* the renamed destination is not looked up again
WhileExistsOnce(existing, name, destination, counter) ==
  IF destination \in existing
  THEN [destination |-> Candidate(name, counter), counter |-> counter + 1]
  ELSE [destination |-> destination, counter |-> counter]

RECURSIVE WhileExists(_, _, _, _)
WhileExists(existing, name, destination, counter) ==
  IF destination \in existing
  THEN WhileExists(existing, name, Candidate(name, counter), counter + 1)
  ELSE [destination |-> destination, counter |-> counter]

ResolveDestination(existing, name) == WhileExists(existing, name, name, 1)

(***************************************************************************)
(* Functions with a changing domain: directory listings.                   *)
(***************************************************************************)
Put(f, k, v) == [x \in (DOMAIN f) \cup {k} |-> IF x = k THEN v ELSE f[x]]

Drop(f, k) == [x \in (DOMAIN f) \ {k} |-> f[x]]

Empty == [x \in {} |-> x]

Perms(S) ==
  {s \in [1..Cardinality(S) -> S] : \A a, b \in DOMAIN s : s[a] = s[b] => a = b}

(***************************************************************************)
(* The names of the model's runs: entries of the scan root, owner names    *)
(* the lookup answers with, and what the channel directories hold before   *)
(* the first run.                                                          *)
(***************************************************************************)
VID == <<"d","Q","w","4","w","9","W","g","X","c","Q">>

\* a[dQw4w9WgXcQ].mp4
NameA == <<"a","[">> \o VID \o <<"]",".","m","p","4">>

\* b[dQw4w9WgXcQ].MP3
NameB == <<"b","[">> \o VID \o <<"]",".","M","P","3">>

\* c.mkv : a media file without an identifier
NameC == <<"c",".","m","k","v">>

\* n.txt : not a media file
NameN == <<"n",".","t","x","t">>

\* a[dQw4w9WgXcQ]_1.mp4 : NameA as an earlier run renamed it
NameA1 == <<"a","[">> \o VID \o <<"]","_","1",".","m","p","4">>

RootNames == {NameA, NameB, NameC, NameN}

\* "A/B" and "A?B" sanitize to the same directory, "T.mp3" to a directory
\* whose name ends in a media extension
OwnerSlash == <<"A","/","B">>

OwnerQuery == <<"A","?","B">>

OwnerDot == <<"T",".","m","p","3">>

Owners == {OwnerSlash, OwnerQuery, OwnerDot}

DirAB == <<"A","_","B">>

\* the content of a file that was in a channel directory before the first run
Old == <<"*">>

Listings ==
  { Empty,
    [d \in {DirAB} |-> [n \in {NameA} |-> Old]],
    [d \in {DirAB} |-> [n \in {NameA, NameA1} |-> Old]] }

(***************************************************************************)
(* State.                                                                  *)
(***************************************************************************)
VARIABLES
  root,            \* the scan root: entry name -> "file" | "dangling" | "dir"
  contents,        \* directory name -> (entry name -> content)
  root0,           \* root when the current run started
  contents0,       \* contents when the current run started
  stats,           \* the MediaOrganizerStats object of the run
  media_files,     \* the list find_media_files returned
  i,               \* position of the for loop of line 446 in media_files
  pc,              \* where process_media_files is
  video_id,        \* local of the loop body
  channel_name,    \* local of the loop body
  channel_dir,     \* local of the loop body
  interrupted,     \* the except KeyboardInterrupt clause ran
  aborted,         \* the except Exception clause ran
  summary,         \* what display_final_summary displayed, <<>> before it
  lookups,         \* the calls of get_youtube_metadata in the run, with their answers
  planned,         \* moves a dry run recorded
  run,             \* number of the current invocation
  prev_all_moved   \* the previous run scanned, and moved every file it discovered

vars ==
  <<root, contents, root0, contents0, stats, media_files, i, pc, video_id,
    channel_name, channel_dir, interrupted, aborted, summary, lookups,
    planned, run, prev_all_moved>>

fsvars == <<root, contents>>

snapvars == <<root0, contents0, run, prev_all_moved>>

localvars == <<video_id, channel_name, channel_dir>>

\* MediaOrganizerStats.__init__
NewStats ==
  [ total_files      |-> 0,
    processed_files  |-> 0,
    failed_files     |-> 0,
    video_files      |-> 0,
    audio_files      |-> 0,
    channels_created |-> {},
    errors           |-> <<>> ]

\* MediaOrganizerStats.add_error
add_error(s, filename, error_type) ==
  [s EXCEPT !.errors = Append(@, [filename |-> filename, error_type |-> error_type])]

\* MediaOrganizerStats.add_channel
add_channel(s, name) ==
  [s EXCEPT !.channels_created = @ \cup {name}]

\* MediaOrganizerStats.increment_processed
increment_processed(s) == [s EXCEPT !.processed_files = @ + 1]

\* MediaOrganizerStats.increment_failed
increment_failed(s) == [s EXCEPT !.failed_files = @ + 1]

\* MediaOrganizerStats.get_summary, without the clock and the rate
get_summary(s) ==
  [ total_files      |-> s.total_files,
    processed_files  |-> s.processed_files,
    failed_files     |-> s.failed_files,
    video_files      |-> s.video_files,
    audio_files      |-> s.audio_files,
    channels_created |-> Cardinality(s.channels_created) ]

Init ==
  /\ \E S \in SUBSET RootNames :
       /\ Cardinality(S) <= MaxFiles
       /\ \E kinds \in [S -> {"file", "dangling"}], listing \in Listings :
            /\ root = [n \in S \cup DOMAIN listing |->
                         IF n \in S THEN kinds[n] ELSE "dir"]
            /\ contents = listing
  /\ root0 = root
  /\ contents0 = contents
  /\ stats = NewStats
  /\ media_files = <<>>
  /\ i = 1
  /\ pc = "scan"
  /\ video_id = None
  /\ channel_name = None
  /\ channel_dir = None
  /\ interrupted = FALSE
  /\ aborted = FALSE
  /\ summary = <<>>
  /\ lookups = <<>>
  /\ planned = <<>>
  /\ run = 1
  /\ prev_all_moved = FALSE

(***************************************************************************)
(* find_media_files: glob("*" + ext) and glob("*" + ext.upper()) for every *)
(* extension, over every entry of the current directory whatever its kind; *)
(* list(set(...)) leaves the order unspecified.                            *)
(***************************************************************************)
GlobMatches(name) ==
  \E ext \in ALL_FORMATS : EndsWith(name, ext) \/ EndsWith(name, UpperStr(ext))

find_media_files(r) == {n \in DOMAIN r : GlobMatches(n)}

CountType(files, type) ==
  Cardinality({k \in DOMAIN files : get_file_type(files[k]) = type})

\* lines 418-432: the scan, the early return on an empty list, the counts
Scan ==
  /\ pc = "scan"
  /\ \E files \in Perms(find_media_files(root)) :
       /\ media_files' = files
       /\ IF files = <<>>
          THEN /\ pc' = "summary"
               /\ UNCHANGED stats
          ELSE /\ pc' = "stat"
               /\ stats' = [stats EXCEPT !.total_files = Len(files),
                                         !.video_files = CountType(files, "video"),
                                         !.audio_files = CountType(files, "audio")]
  /\ i' = 1
  /\ UNCHANGED <<fsvars, snapvars, localvars, interrupted, aborted, summary,
                 lookups, planned>>

\* lines 446-459: the loop takes the next file and logs its size; stat() of a
\* dangling link raises, which the except Exception clause of line 504 catches
NextFile ==
  /\ pc = "stat"
  /\ IF i > Len(media_files)
     THEN /\ pc' = "summary"
          /\ UNCHANGED aborted
     ELSE IF root[media_files[i]] = "dangling"
     THEN /\ pc' = "summary"
          /\ aborted' = TRUE
     ELSE /\ pc' = "extract"
          /\ UNCHANGED aborted
  /\ UNCHANGED <<fsvars, snapvars, localvars, stats, media_files, i,
                 interrupted, summary, lookups, planned>>

\* a faulty variant of Extract: a file without identifier is skipped silently
ExtractSkip ==
  /\ pc = "extract"
  /\ LET id == extract_video_id(media_files[i])
     IN /\ video_id' = id
        /\ IF id = None
           THEN /\ pc' = "stat"
                /\ i' = i + 1
           ELSE /\ pc' = "lookup"
                /\ UNCHANGED i
  /\ UNCHANGED <<fsvars, snapvars, channel_name, channel_dir, media_files,
                 stats, interrupted, aborted, summary, lookups, planned>>

\* lines 461-470
Extract ==
  /\ pc = "extract"
  /\ LET id == extract_video_id(media_files[i])
     IN /\ video_id' = id
        /\ IF id = None
           THEN /\ stats' = add_error(stats, media_files[i], "ID_EXTRACTION_FAILED")
                /\ pc' = "inc_failed"
           ELSE /\ pc' = "lookup"
                /\ UNCHANGED stats
  /\ UNCHANGED <<fsvars, snapvars, channel_name, channel_dir, media_files, i,
                 interrupted, aborted, summary, lookups, planned>>

\* a variant of Lookup with the fallback policy: a failed lookup names the
\* owner "Unknown_Channel" and the file goes on
LookupFallback ==
  /\ pc = "lookup"
  /\ \E answer \in Owners \cup {None} :
       /\ lookups' = Append(lookups, [video_id |-> video_id, answer |-> answer])
       /\ channel_name' = IF answer = None THEN Unknown_Channel ELSE answer
  /\ pc' = "mkdir"
  /\ UNCHANGED <<fsvars, snapvars, video_id, channel_dir, media_files, i, stats,
                 interrupted, aborted, summary, planned>>

\* lines 472-478: get_youtube_metadata answers with an owner name, or with
\* None (an exception, a non-dict answer, no uploader and no channel)
Lookup ==
  /\ pc = "lookup"
  /\ \E answer \in Owners \cup {None} :
       /\ lookups' = Append(lookups, [video_id |-> video_id, answer |-> answer])
       /\ channel_name' = answer
       /\ IF answer = None
          THEN /\ stats' = add_error(stats, media_files[i], "METADATA_FETCH_FAILED")
               /\ pc' = "inc_failed"
          ELSE /\ pc' = "mkdir"
               /\ UNCHANGED stats
  /\ UNCHANGED <<fsvars, snapvars, video_id, channel_dir, media_files, i,
                 interrupted, aborted, summary, planned>>

\* Path.mkdir(exist_ok=True) of create_channel_directory: it raises when the
\* name exists and is no directory, or when the filesystem refuses (allowed)
MkdirSucceeds(r, name, allowed) ==
  allowed /\ (name \in DOMAIN r => r[name] = "dir")

\* lines 480-490 with create_channel_directory, lines 204-235
CreateDir ==
  /\ pc = "mkdir"
  /\ \E allowed \in BOOLEAN :
       LET sanitized_name == sanitize_directory_name(channel_name)
       IN IF MkdirSucceeds(root, sanitized_name, allowed)
          THEN /\ root' = Put(root, sanitized_name, "dir")
               /\ contents' = IF sanitized_name \in DOMAIN contents
                              THEN contents
                              ELSE Put(contents, sanitized_name, Empty)
               /\ channel_dir' = sanitized_name
               /\ stats' = add_channel(stats, channel_name)
               /\ pc' = "move"
          ELSE /\ stats' = add_error(stats, media_files[i], "DIRECTORY_CREATION_FAILED")
               /\ pc' = "inc_failed"
               /\ UNCHANGED <<fsvars, channel_dir>>
  /\ UNCHANGED <<snapvars, video_id, channel_name, media_files, i, interrupted,
                 aborted, summary, lookups, planned>>

\* the destination move_file_to_channel_directory computes for the current file
Destination ==
  ResolveDestination(DOMAIN contents[channel_dir], media_files[i]).destination

\* a faulty variant of Move: a failed move is counted but not recorded
MoveNoRecord ==
  /\ pc = "move"
  /\ \E moved \in BOOLEAN :
       IF moved
       THEN /\ root' = Drop(root, media_files[i])
            /\ contents' = [contents EXCEPT
                 ![channel_dir] = Put(@, Destination, media_files[i])]
            /\ pc' = "inc_processed"
       ELSE /\ pc' = "inc_failed"
            /\ UNCHANGED fsvars
  /\ UNCHANGED <<snapvars, localvars, media_files, i, stats, interrupted,
                 aborted, summary, lookups, planned>>

\* lines 492-497 with move_file_to_channel_directory, lines 242-281:
\* shutil.move either moves the entry or raises (moved = FALSE)
Move ==
  /\ pc = "move"
  /\ \E moved \in BOOLEAN :
       IF moved
       THEN /\ root' = Drop(root, media_files[i])
            /\ contents' = [contents EXCEPT
                 ![channel_dir] = Put(@, Destination, media_files[i])]
            /\ pc' = "inc_processed"
            /\ UNCHANGED stats
       ELSE /\ stats' = add_error(stats, media_files[i], "FILE_MOVE_FAILED")
            /\ pc' = "inc_failed"
            /\ UNCHANGED fsvars
  /\ UNCHANGED <<snapvars, localvars, media_files, i, interrupted, aborted,
                 summary, lookups, planned>>

\* line 493 and line 499, then the loop goes on
IncrementProcessed ==
  /\ pc = "inc_processed"
  /\ stats' = increment_processed(stats)
  /\ i' = i + 1
  /\ pc' = "stat"
  /\ video_id' = None
  /\ channel_name' = None
  /\ channel_dir' = None
  /\ UNCHANGED <<fsvars, snapvars, media_files, interrupted, aborted, summary,
                 lookups, planned>>

\* lines 468-470, 476-478, 486-488 and 497-499, then the loop goes on
IncrementFailed ==
  /\ pc = "inc_failed"
  /\ stats' = increment_failed(stats)
  /\ i' = i + 1
  /\ pc' = "stat"
  /\ video_id' = None
  /\ channel_name' = None
  /\ channel_dir' = None
  /\ UNCHANGED <<fsvars, snapvars, media_files, interrupted, aborted, summary,
                 lookups, planned>>

\* where the try block of lines 417-499 is executing
InTry ==
  pc \in {"scan", "stat", "extract", "lookup", "mkdir", "move",
          "inc_processed", "inc_failed"}

\* a faulty variant of Interrupt: the KeyboardInterrupt is not caught and the
\* process ends without a summary
InterruptUncaught ==
  /\ InTry
  /\ interrupted' = TRUE
  /\ pc' = "done"
  /\ UNCHANGED <<fsvars, snapvars, localvars, stats, media_files, i, aborted,
                 summary, lookups, planned>>

\* lines 501-503: a KeyboardInterrupt raised anywhere in the try block
Interrupt ==
  /\ InTry
  /\ interrupted' = TRUE
  /\ pc' = "summary"
  /\ UNCHANGED <<fsvars, snapvars, localvars, stats, media_files, i, aborted,
                 summary, lookups, planned>>

\* lines 511-512: the finally clause
DisplayFinalSummary ==
  /\ pc = "summary"
  /\ summary' = <<get_summary(stats)>>
  /\ pc' = "done"
  /\ UNCHANGED <<fsvars, snapvars, localvars, stats, media_files, i,
                 interrupted, aborted, lookups, planned>>

\* whether the run that ended went through its whole list and left none of
\* the entries it discovered in the scan root
AllMoved ==
  /\ ~interrupted
  /\ ~aborted
  /\ \A k \in DOMAIN media_files : media_files[k] \notin DOMAIN root

\* main() is invoked again in the same directory: lines 412-413
NewRun ==
  /\ pc = "done"
  /\ run < MaxRuns
  /\ run' = run + 1
  /\ prev_all_moved' = AllMoved
  /\ root0' = root
  /\ contents0' = contents
  /\ stats' = NewStats
  /\ media_files' = <<>>
  /\ i' = 1
  /\ pc' = "scan"
  /\ video_id' = None
  /\ channel_name' = None
  /\ channel_dir' = None
  /\ interrupted' = FALSE
  /\ aborted' = FALSE
  /\ summary' = <<>>
  /\ lookups' = <<>>
  /\ planned' = <<>>
  /\ UNCHANGED fsvars

Next ==
  \/ Scan
  \/ NextFile
  \/ Extract
  \/ Lookup
  \/ CreateDir
  \/ Move
  \/ IncrementProcessed
  \/ IncrementFailed
  \/ Interrupt
  \/ DisplayFinalSummary
  \/ NewRun

Spec == Init /\ [][Next]_vars

\* the finally clause runs as soon as the try block is left
FairSpec == Spec /\ WF_vars(DisplayFinalSummary)

(***************************************************************************)
(* Dry-run mode.  cli.py has no dry-run flag; the two steps below follow   *)
(* the design's description of it: the directory is not created and the    *)
(* move is recorded instead of performed.                                  *)
(***************************************************************************)
\* a faulty variant of DryCreateDir: the dry run still creates the directory
DryCreateDirMkdir ==
  /\ pc = "mkdir"
  /\ LET sanitized_name == sanitize_directory_name(channel_name)
     IN /\ root' = Put(root, sanitized_name, "dir")
        /\ contents' = IF sanitized_name \in DOMAIN contents
                       THEN contents
                       ELSE Put(contents, sanitized_name, Empty)
        /\ channel_dir' = sanitized_name
  /\ stats' = add_channel(stats, channel_name)
  /\ pc' = "move"
  /\ UNCHANGED <<snapvars, video_id, channel_name, media_files, i,
                 interrupted, aborted, summary, lookups, planned>>

DryCreateDir ==
  /\ pc = "mkdir"
  /\ channel_dir' = sanitize_directory_name(channel_name)
  /\ stats' = add_channel(stats, channel_name)
  /\ pc' = "move"
  /\ UNCHANGED <<fsvars, snapvars, video_id, channel_name, media_files, i,
                 interrupted, aborted, summary, lookups, planned>>

DryMove ==
  /\ pc = "move"
  /\ LET existing == IF channel_dir \in DOMAIN contents
                     THEN DOMAIN contents[channel_dir]
                     ELSE {}
     IN planned' = Append(planned,
          [ source      |-> media_files[i],
            directory   |-> channel_dir,
            destination |-> ResolveDestination(existing, media_files[i]).destination ])
  /\ pc' = "inc_processed"
  /\ UNCHANGED <<fsvars, snapvars, localvars, stats, media_files, i,
                 interrupted, aborted, summary, lookups>>

NextDry ==
  \/ Scan
  \/ NextFile
  \/ Extract
  \/ Lookup
  \/ DryCreateDir
  \/ DryMove
  \/ IncrementProcessed
  \/ IncrementFailed
  \/ Interrupt
  \/ DisplayFinalSummary
  \/ NewRun

SpecDry == Init /\ [][NextDry]_vars

(***************************************************************************)
(* Definitions the properties share.                                       *)
(***************************************************************************)
Counted == stats.processed_files + stats.failed_files

\* the discovered entries that are no longer in the scan root
Moved == {media_files[k] : k \in DOMAIN media_files} \ DOMAIN root

ErrorNames == {stats.errors[k].filename : k \in DOMAIN stats.errors}

ErrorsOfType(type) ==
  {stats.errors[k].filename : k \in {j \in DOMAIN stats.errors :
                                       stats.errors[j].error_type = type}}

\* the step is a call of get_youtube_metadata that failed
LookupFailedStep ==
  /\ pc = "lookup"
  /\ Len(lookups') = Len(lookups) + 1
  /\ lookups'[Len(lookups')].answer = None

(***************************************************************************)
(* C1: processed_files + failed_files <= total_files in every state, and   *)
(* processed_files + failed_files = total_files when a run that was not    *)
(* interrupted has displayed its final summary.                            *)
(***************************************************************************)
C1_Conservation ==
  /\ Counted <= stats.total_files
  /\ (pc = "done" /\ ~interrupted) => Counted = stats.total_files

(***************************************************************************)
(* C2, as claimed: a failed owner lookup does not fail the file; the owner *)
(* becomes "Unknown_Channel", the file goes on to the directory creation,  *)
(* and neither an error record nor a failed count results.                 *)
(***************************************************************************)
C2_Fallback ==
  [][LookupFailedStep =>
       /\ channel_name' = Unknown_Channel
       /\ pc' = "mkdir"
       /\ stats' = stats]_vars

(***************************************************************************)
(* C2, amended: a failed owner lookup puts the file in the Failed state:   *)
(* a METADATA_FETCH_FAILED record is appended for it, no owner name is     *)
(* assigned, nothing on the filesystem changes, and the step that follows  *)
(* adds one to failed_files and goes to the next file, so the file is      *)
(* never moved and no directory is made for it.                            *)
(***************************************************************************)
C2_LookupFailureFails ==
  /\ [][LookupFailedStep =>
          /\ stats' = add_error(stats, media_files[i], "METADATA_FETCH_FAILED")
          /\ channel_name' = None
          /\ pc' = "inc_failed"
          /\ fsvars' = fsvars]_vars
  /\ [][(/\ pc = "inc_failed"
          /\ stats.errors[Len(stats.errors)].error_type = "METADATA_FETCH_FAILED"
          /\ ~interrupted') =>
          /\ stats'.failed_files = stats.failed_files + 1
          /\ stats'.processed_files = stats.processed_files
          /\ i' = i + 1
          /\ pc' = "stat"
          /\ fsvars' = fsvars]_vars
  /\ [](ErrorsOfType("METADATA_FETCH_FAILED") \subseteq DOMAIN root)

C2_Witness ==
  /\ pc = "stat"
  /\ stats.failed_files = 1
  /\ ErrorsOfType("METADATA_FETCH_FAILED") # {}

(***************************************************************************)
(* C3: a successful move puts the file at the first name of the sequence   *)
(* name.ext, name_1.ext, name_2.ext, ... that the channel directory does   *)
(* not hold, keeps every entry the directory held, with its content, and   *)
(* adds exactly one entry; no other directory changes.  So in every state  *)
(* of a run every entry that a directory held when the run started is      *)
(* still there with its content, and the directories hold one entry more   *)
(* for each entry moved out of the scan root.                              *)
(***************************************************************************)
\* destination is the first free name of the sequence for name in listing
FirstFree(listing, name, destination) ==
  /\ destination \notin DOMAIN listing
  /\ \/ destination = name
     \/ /\ name \in DOMAIN listing
        /\ \E n \in 1..Cardinality(DOMAIN listing) :
             /\ destination = Candidate(name, n)
             /\ \A m \in 1..(n - 1) : Candidate(name, m) \in DOMAIN listing

RECURSIVE Entries(_, _)
Entries(listing, dirs) ==
  IF dirs = {} THEN 0
  ELSE LET d == CHOOSE x \in dirs : TRUE
       IN Cardinality(DOMAIN listing[d]) + Entries(listing, dirs \ {d})

MoveSucceededStep == pc = "move" /\ pc' = "inc_processed"

Failing(name) ==
  \/ name \in ErrorNames
  \/ name \in DOMAIN root /\ root[name] = "dangling"

C4_NoAbort ==
  (pc = "done" /\ ~interrupted) =>
    \A j, k \in DOMAIN media_files :
      (j < k /\ Failing(media_files[j]))
        => media_files[k] \in Moved \cup ErrorNames

(***************************************************************************)
(* C5: once an interrupt has arrived in the try block no further file is   *)
(* started and nothing more is counted or moved in the run; the summary is *)
(* eventually displayed with the statistics as they then are; and those    *)
(* statistics are consistent: no file is counted both as processed and as  *)
(* failed, no file is counted twice, and processed + failed <= total.      *)
(***************************************************************************)
NoDuplicateErrors ==
  \A a, b \in DOMAIN stats.errors :
    stats.errors[a].filename = stats.errors[b].filename => a = b

ConsistentStats ==
  /\ Counted <= stats.total_files
  /\ Counted <= i
  /\ stats.processed_files <= Cardinality(Moved)
  /\ stats.failed_files <= Len(stats.errors)
  /\ NoDuplicateErrors
  /\ Moved \cap ErrorNames = {}

C5_Interrupt ==
  /\ [][(interrupted /\ run' = run) =>
          /\ i' = i
          /\ stats' = stats
          /\ fsvars' = fsvars
          /\ lookups' = lookups]_vars
  /\ [](interrupted => ConsistentStats)
  /\ (interrupted ~> (interrupted /\ summary = <<get_summary(stats)>>))

\* an interrupted run displayed a summary that counts a moved file and a
\* failed one, with a file left undone
C5_Witness ==
  /\ interrupted
  /\ pc = "done"
  /\ summary = <<get_summary(stats)>>
  /\ stats.processed_files >= 1
  /\ Counted < stats.total_files

(***************************************************************************)
(* C6: when a run that went through its whole list has displayed its       *)
(* summary, channels_created names exactly the directories into which a    *)
(* file was moved during the run, and the count reported is the number of  *)
(* those directories.                                                      *)
(***************************************************************************)
\* the directories that hold an entry they did not hold when the run started
MovedInto ==
  {d \in DOMAIN contents :
     \E n \in DOMAIN contents[d] :
       d \in DOMAIN contents0 => n \notin DOMAIN contents0[d]}

C6_ChannelsAreMovedInto ==
  (pc = "done" /\ ~interrupted /\ ~aborted) =>
    /\ {sanitize_directory_name(c) : c \in stats.channels_created} = MovedInto
    /\ summary[1].channels_created = Cardinality(MovedInto)

(***************************************************************************)
(* C7: a run over a directory in which the run before it moved every file  *)
(* it discovered discovers no file, moves none, creates no directory and   *)
(* records no error and no failed file.                                    *)
(***************************************************************************)
C7_SecondRunIdle ==
  (run > 1 /\ prev_all_moved /\ pc = "done" /\ ~interrupted) =>
    /\ media_files = <<>>
    /\ stats.total_files = 0
    /\ stats.processed_files = 0
    /\ stats.failed_files = 0
    /\ stats.errors = <<>>
    /\ root = root0
    /\ contents = contents0

C9_OneRecordPerFailure ==
  /\ NoDuplicateErrors
  /\ pc = "stat" =>
       /\ stats.failed_files = Len(stats.errors)
       /\ stats.processed_files = Cardinality(Moved)
       /\ Counted = i - 1
       /\ Moved \cap ErrorNames = {}
       /\ ErrorNames \subseteq {media_files[k] : k \in 1..(i - 1)}

C9_Witness ==
  /\ pc = "stat"
  /\ stats.failed_files >= 1
  /\ stats.processed_files >= 1
  /\ stats.failed_files = Len(stats.errors)

(***************************************************************************)
(* C10: a discovered file whose name yields no identifier gets one         *)
(* ID_EXTRACTION_FAILED record and one failed count, and handling it       *)
(* changes nothing else: no lookup is called, the filesystem, the file's   *)
(* place, processed_files and channels_created stay as they were.          *)
(***************************************************************************)
NoIdentifier ==
  /\ pc \in {"extract", "inc_failed"}
  /\ extract_video_id(media_files[i]) = None

C10_NoIdentifier ==
  /\ [][(NoIdentifier /\ ~interrupted') =>
          /\ fsvars' = fsvars
          /\ media_files[i] \in DOMAIN root'
          /\ lookups' = lookups
          /\ stats'.processed_files = stats.processed_files
          /\ stats'.channels_created = stats.channels_created
          /\ pc = "extract" =>
               /\ stats' = add_error(stats, media_files[i], "ID_EXTRACTION_FAILED")
               /\ pc' = "inc_failed"
          /\ pc = "inc_failed" =>
               /\ stats' = increment_failed(stats)
               /\ pc' = "stat"]_vars
  /\ [](pc = "stat" =>
          \A k \in 1..(i - 1) :
            extract_video_id(media_files[k]) = None
              => media_files[k] \in ErrorsOfType("ID_EXTRACTION_FAILED") \cap DOMAIN root)

C10_Witness ==
  /\ pc = "stat"
  /\ NameC \in ErrorsOfType("ID_EXTRACTION_FAILED")
  /\ stats.failed_files = Len(stats.errors)
  /\ lookups = <<>>

====
